---- MODULE Spec2Model ----
(***************************************************************************)
(* A model of lib/client.js (AWS.Client): API version resolution, client   *)
(* construction against the per-service version registry, and the retry    *)
(* policy, as bounded state machines.                                       *)
(***************************************************************************)
EXTENDS Integers, Sequences, FiniteSets, TLC

VARIABLES
  vClients,     \* version resolver: the registry (this.constructor.clients) under test
  vVersion,     \* version resolver: the version argument
  vResult,      \* version resolver: what getLatestClientVersion returned or threw
  classes,      \* the client classes defined so far, by class id
  apiFiles,     \* the API catalog: the files under services/api and what each exports
  AWSconfig,    \* the global configuration AWS.config
  ctor,         \* the client construction (new Type(config)) in progress or last ended
  rClient,      \* retry policy: the client's config.maxRetries and defaultRetryCount
  rError,       \* retry policy: the error handed to retryableError
  rCall,        \* retry policy: the call made on the client and its result
  request,      \* the request being sent: its attempts, waits and deliveries
  listeners,    \* the listener sets shared by all requests: AWS.events and EventListeners.Core
  requests,     \* the Request objects constructed by makeRequest, in order
  call,         \* the last call made on the client, or command evaluated, and how it ended
  context,      \* the console's context: data, error, request, response
  kept          \* a client constructed earlier, kept to compare a later one with

versionVars == <<vClients, vVersion, vResult>>
clientVars == <<classes, apiFiles, AWSconfig, ctor>>
retryVars == <<rClient, rError, rCall, request>>
requestVars == <<listeners, requests, call, context, kept>>
vars ==
  <<vClients, vVersion, vResult, classes, apiFiles, AWSconfig, ctor,
    rClient, rError, rCall, request, listeners, requests, call, context, kept>>

(***************************************************************************)
(* JavaScript values.  A value is a record tagged with its type, so that   *)
(* values of different types can be told apart.                            *)
(***************************************************************************)
Undefined == [t |-> "undefined"]
Null == [t |-> "null"]
String(s) == [t |-> "string", s |-> s]
Number(n) == [t |-> "number", n |-> n]
Object(o) == [t |-> "object", o |-> o]
\* String(v) of a value that is undefined or a string.
ToStr(v) == IF v.t = "string" THEN v.s ELSE v.t
\* A Date value carries the instant it denotes, written as ISO-8601 text.
DateValue(iso) == [t |-> "date", iso |-> iso]
IsDate(v) == v.t = "date"
Function(name) == [t |-> "function", name |-> name]
\* !v for the values above: undefined, null and the empty string are falsy.
Falsy(v) == v.t \in {"undefined", "null"} \/ (v.t = "string" /\ v.s = "")

\* Nothing computed yet (a value of the model, not of JavaScript).
None == [status |-> "none"]

\* The service identifier of the versioned client type of the test suite.
ServiceId == "custom"

(***************************************************************************)
(* Strings are compared by code unit: every string the model compares is   *)
(* given by its sequence of character codes.                               *)
(***************************************************************************)
CharCodes(s) ==
  CASE s = "1998-01-01" -> <<49,57,57,56,45,48,49,45,48,49>>
    [] s = "1999-05-05" -> <<49,57,57,57,45,48,53,45,48,53>>
    [] s = "2000-01-01" -> <<50,48,48,48,45,48,49,45,48,49>>
    [] s = "2001-01-01" -> <<50,48,48,49,45,48,49,45,48,49>>
    [] s = "2002-03-04" -> <<50,48,48,50,45,48,51,45,48,52>>
    [] s = "2001"       -> <<50,48,48,49>>
    [] s = "latest"     -> <<108,97,116,101,115,116>>
    [] s = "2000-01-01T00:00:00.000Z" ->
         <<50,48,48,48,45,48,49,45,48,49,84,48,48,58,48,48,58,48,48,46,48,48,48,90>>
    [] s = "2001-06-15T12:30:00.000Z" ->
         <<50,48,48,49,45,48,54,45,49,53,84,49,50,58,51,48,58,48,48,46,48,48,48,90>>
    [] s = "2001-06-15" -> <<50,48,48,49,45,48,54,45,49,53>>

KnownStrings ==
  {"1998-01-01", "1999-05-05", "2000-01-01", "2001-01-01", "2002-03-04",
   "2001", "latest", "2000-01-01T00:00:00.000Z", "2001-06-15T12:30:00.000Z",
   "2001-06-15"}

\* The string with the given character codes.
Str(codes) == CHOOSE s \in KnownStrings : CharCodes(s) = codes

\* a < b on strings: the first differing code unit decides, a proper prefix is less.
RECURSIVE SeqLess(_, _)
SeqLess(a, b) ==
  IF b = <<>> THEN FALSE
  ELSE IF a = <<>> THEN TRUE
  ELSE IF Head(a) < Head(b) THEN TRUE
  ELSE IF Head(a) > Head(b) THEN FALSE
  ELSE SeqLess(Tail(a), Tail(b))

\* a <= b on strings, which JavaScript evaluates as !(b < a).
StrLE(a, b) == ~SeqLess(CharCodes(b), CharCodes(a))

\* s.split('T')[0]: the text before the first 'T' (code 84), all of s without one.
RECURSIVE UpToT(_)
UpToT(codes) ==
  IF codes = <<>> THEN <<>>
  ELSE IF Head(codes) = 84 THEN <<>>
  ELSE <<Head(codes)>> \o UpToT(Tail(codes))

SplitT0(s) == Str(UpToT(CharCodes(s)))

\* AWS.util.date.iso8601(date): the ISO-8601 text of the instant.
iso8601(d) == d.iso

(***************************************************************************)
(* getLatestClientVersion                                                  *)
(***************************************************************************)
\* An Error thrown, by the message it carries: its kind, the service it names
\* and the version or file it names ("" when the message names none).
Threw(kind, service, detail) ==
  [status |-> "threw", error |-> kind, service |-> service, detail |-> detail]
Returned(v) == [status |-> "returned", value |-> v]

\* A version registry: absent (the class has no clients property), or a plain
\* object that maps each version key to null or to the class bound to it.
NoRegistry == [defined |-> FALSE, entries |-> <<>>]
NullEntry == [t |-> "null"]
ClassEntry(id) == [t |-> "class", id |-> id]

\* clients.length: the registry is a plain object keyed by version, and has a
\* length only if a version is called "length".
ClientsLength(clients) ==
  IF "length" \in DOMAIN clients.entries THEN clients.entries["length"] ELSE Undefined

\* Object.hasOwnProperty(clients, version) is Object.prototype.hasOwnProperty
\* applied to the Object constructor with the property name String(clients),
\* which is "[object Object]"; its second argument is not read.
ObjectOwnProperties ==
  {"length", "name", "prototype", "keys", "create", "defineProperty",
   "getPrototypeOf", "getOwnPropertyNames", "freeze", "seal"}
ObjectHasOwnProperty(clients, version) == "[object Object]" \in ObjectOwnProperties

\* Object.keys(clients).sort(): ascending by code unit.
RECURSIVE SortedKeys(_)
SortedKeys(S) ==
  IF S = {} THEN <<>>
  ELSE LET m == CHOOSE x \in S : \A y \in S : StrLE(x, y)
       IN <<m>> \o SortedKeys(S \ {m})

NotFound == "notfound"

\* The scan with < in place of <=: a key equal to the version is passed over.
RECURSIVE ScanKeysDownStrict(_, _, _)
ScanKeysDownStrict(keys, i, version) ==
  IF i < 1 THEN NotFound
  ELSE IF SeqLess(CharCodes(keys[i]), CharCodes(version)) THEN keys[i]
  ELSE ScanKeysDownStrict(keys, i - 1, version)

\* for (i = keys.length - 1; i >= 0; i--) if (keys[i] <= version) return keys[i]
\* (keys is indexed from 1 here).
RECURSIVE ScanKeysDown(_, _, _)
ScanKeysDown(keys, i, version) ==
  IF i < 1 THEN NotFound
  ELSE IF StrLE(keys[i], version) THEN keys[i]
  ELSE ScanKeysDown(keys, i - 1, version)

\* The version after the defaulting and the Date normalisation of lines 70-74.
NormalizeVersion(version) ==
  IF Falsy(version) THEN "latest"
  ELSE IF IsDate(version) THEN SplitT0(iso8601(version))
  ELSE version.s

getLatestClientVersion(clients, service, version) ==
  IF ~clients.defined \/ ClientsLength(clients) = Number(0)
  THEN Threw("NoClientsDefined", service, "")
  ELSE LET v == NormalizeVersion(version)
           keys == SortedKeys(DOMAIN clients.entries)
           hit == ScanKeysDown(keys, Len(keys), v)
       IN IF ObjectHasOwnProperty(clients, v) THEN Returned(v)
          ELSE IF hit # NotFound THEN Returned(hit)
          ELSE Threw("VersionConstraint", service, v)

(***************************************************************************)
(* The version resolver on its own: every registry over the key universe   *)
(* and every requested version.                                            *)
(***************************************************************************)
IsoDateKeys == {"1999-05-05", "2000-01-01", "2001-01-01", "2002-03-04"}
KeyUniverse == IsoDateKeys \cup {"latest"}

RequestedVersions ==
  {Undefined, Null} \cup
  {String(s) : s \in {"latest", "1998-01-01", "1999-05-05", "2000-01-01",
                      "2001-01-01", "2002-03-04", "2001"}} \cup
  {DateValue("2000-01-01T00:00:00.000Z"), DateValue("2001-06-15T12:30:00.000Z")}

\* defineClient, lines 229-232: every listed version maps to null.
NewRegistry(versions) == [defined |-> TRUE, entries |-> [k \in versions |-> NullEntry]]

\* The state of the variables of the other specifications, which this one
\* leaves alone.
ClientsIdle ==
  /\ classes = <<>>
  /\ apiFiles = <<>>
  /\ AWSconfig = <<>>
  /\ ctor = None

RetryIdle ==
  /\ rClient = <<>>
  /\ rError = <<>>
  /\ rCall = None
  /\ request = None

RequestIdle ==
  /\ listeners = <<>>
  /\ requests = <<>>
  /\ call = None
  /\ context = None
  /\ kept = None

VersionInit ==
  /\ ClientsIdle
  /\ RetryIdle
  /\ RequestIdle
  /\ vClients \in {NoRegistry} \cup {NewRegistry(S) : S \in SUBSET KeyUniverse}
  /\ vVersion \in RequestedVersions
  /\ vResult = None

ResolveVersion ==
  /\ vResult = None
  /\ vResult' = getLatestClientVersion(vClients, ServiceId, vVersion)
  /\ UNCHANGED <<vClients, vVersion, clientVars, retryVars, requestVars>>

VersionNext == ResolveVersion

SpecVersion == VersionInit /\ [][VersionNext]_vars

\* The version a request asks for: absent is "latest", a Date is its day.
C1_Asked ==
  IF vVersion \in {Undefined, Null} THEN "latest"
  ELSE IF vVersion = DateValue("2000-01-01T00:00:00.000Z") THEN "2000-01-01"
  ELSE IF vVersion = DateValue("2001-06-15T12:30:00.000Z") THEN "2001-06-15"
  ELSE vVersion.s

C1_Keys == DOMAIN vClients.entries
C1_Candidates == {k \in C1_Keys : StrLE(k, C1_Asked)}
C1_Greatest(S) == CHOOSE k \in S : \A j \in S : StrLE(j, k)
C1_Case ==
  /\ vResult # None
  /\ vClients.defined
  /\ C1_Keys # {}
  /\ C1_Keys \subseteq IsoDateKeys

\* C1: on a non-empty registry with ISO-date keys, getLatestClientVersion
\* returns the greatest key that is lexically <= the requested version (absent
\* = "latest") and throws the version-constraint error when there is none;
\* "latest" gives the greatest key overall and a registered key gives itself.
C1_GreatestKeyNotAfter ==
  C1_Case =>
    /\ C1_Candidates = {} =>
          vResult = Threw("VersionConstraint", ServiceId, C1_Asked)
    /\ C1_Candidates # {} => vResult = Returned(C1_Greatest(C1_Candidates))
    /\ C1_Asked = "latest" => vResult = Returned(C1_Greatest(C1_Keys))
    /\ C1_Asked \in C1_Keys => vResult = Returned(C1_Asked)

\* The fuzzy match of the test suite: 2000-01-01 against {1999-05-05, 2001-01-01}.
C1_Witness ==
  /\ C1_Case
  /\ C1_Keys = {"1999-05-05", "2001-01-01"}
  /\ vVersion = String("2000-01-01")
  /\ vResult = Returned("1999-05-05")

(***************************************************************************)
(* Client classes                                                          *)
(***************************************************************************)
\* An API descriptor is a plain object: a record of the keys it has.
EmptyApi == <<>>
isEmpty(obj) == DOMAIN obj = {}
Get(obj, key) == IF key \in DOMAIN obj THEN obj[key] ELSE Undefined
Array(items) == [t |-> "array", items |-> items]

\* What services/api/<service>-<version> exports when it describes the service.
CatalogApi(service, version) ==
  [format |-> String("query"), endpointPrefix |-> String(service),
   apiVersion |-> String(version), operations |-> {"describeThings"}]
\* The one-off descriptor of the test suite.
InlineApi == [operations |-> {"operationName"}]
\* The descriptor of a class defined with its API.
BoundApi ==
  [format |-> String("json"), endpointPrefix |-> String("fooservice"),
   operations |-> {"operation"}]

\* The members of AWS.Client.prototype other than api, by name.
ClientMembers ==
  [m \in {"constructor", "initialize", "loadClientClass", "getLatestClientClass",
          "getLatestClientVersion", "defaultRetryCount", "makeRequest",
          "addAllRequestListeners", "setupRequestListeners", "serviceInterface",
          "successfulResponse", "numRetries", "retryDelays", "retryableError",
          "networkingError", "expiredCredentialsError", "throttledError",
          "setEndpoint"} |->
     IF m = "defaultRetryCount" THEN Number(3) ELSE Function(m)]

\* A class: the api of its prototype and the other members of its prototype
\* (own or inherited), and its own static properties clients and
\* serviceIdentifier.
AWSClient ==
  [api |-> EmptyApi, members |-> ClientMembers, clients |-> NoRegistry,
   serviceIdentifier |-> Undefined]

\* inherit(superclass, features): the prototype inherits the superclass's and
\* takes the features; static properties are not inherited.
inherit(superclass, features) ==
  [api |-> IF "api" \in DOMAIN features THEN features.api ELSE superclass.api,
   members |-> [m \in DOMAIN superclass.members \cup (DOMAIN features \ {"api"}) |->
                  IF m \in DOMAIN features THEN features[m] ELSE superclass.members[m]],
   clients |-> NoRegistry,
   serviceIdentifier |-> Undefined]

\* function (params, callback) { return this.makeRequest(method, params, callback); }
Forward(method) == [t |-> "function", name |-> "makeRequest", method |-> method]

\* client.prototype[method]
Member(client, method) ==
  IF method = "api" THEN Object(client.api) ELSE Get(client.members, method)

\* defineMethods that defines every operation, whether or not the prototype
\* has a member of that name.
defineMethodsOverExisting(client) ==
  LET operations == IF "operations" \in DOMAIN client.api THEN client.api.operations ELSE {}
      added == operations \ {"api"}
  IN [client EXCEPT !.members =
        [m \in DOMAIN client.members \cup added |->
           IF m \in added THEN Forward(m) ELSE client.members[m]]]

defineMethods(client) ==
  LET operations == IF "operations" \in DOMAIN client.api THEN client.api.operations ELSE {}
      added == {m \in operations : Falsy(Member(client, m))}
  IN [client EXCEPT !.members =
        [m \in DOMAIN client.members \cup added |->
           IF m \in added THEN Forward(m) ELSE client.members[m]]]

defineClient(serviceIdentifier, versions, features) ==
  LET feats == IF versions.t = "array" THEN features ELSE versions
      vers == IF versions.t = "array" THEN versions.items ELSE {}
      client == inherit(AWSClient, IF Falsy(feats) THEN <<>> ELSE feats.o)
  IN IF serviceIdentifier.t = "string"
     THEN [client EXCEPT !.clients = NewRegistry(vers),
                         !.serviceIdentifier = serviceIdentifier]
     ELSE defineMethods([client EXCEPT !.api = serviceIdentifier.o])

\* The classes that exist once the library and the client types are loaded.
ClientId == 1       \* AWS.Client itself
CustomId == 2       \* defineClient('custom', ['2001-01-01', '1999-05-05'])
UnversionedId == 3  \* defineClient('unversioned'): a service identifier, no versions
BoundId == 4        \* defineClient('bound', ['2001-01-01'], {api: ...})
MockId == 5         \* defineClient({...}): defined with its API

LoadedClasses ==
  <<AWSClient,
    defineClient(String(ServiceId), Array({"2001-01-01", "1999-05-05"}), Undefined),
    defineClient(String("unversioned"), Undefined, Undefined),
    defineClient(String("bound"), Array({"2001-01-01"}), Object([api |-> BoundApi])),
    defineClient(Object(BoundApi), Undefined, Undefined)>>

(***************************************************************************)
(* Configuration                                                           *)
(***************************************************************************)
\* The keys of AWS.Config with their defaults.
ConfigDefaults ==
  [apiVersion |-> Null, apiVersions |-> <<>>, endpoint |-> Undefined,
   region |-> Undefined, maxRetries |-> Undefined, paramValidation |-> TRUE]

\* new AWS.Config(options): every key from the options, else its default.
NewConfig(options) ==
  [k \in DOMAIN ConfigDefaults |->
     IF k \in DOMAIN options THEN options[k] ELSE ConfigDefaults[k]]

\* config.update(options, true): every key of the options overrides.
Update(config, options) ==
  [k \in DOMAIN config \cup DOMAIN options |->
     IF k \in DOMAIN options THEN options[k] ELSE config[k]]

\* The constructor's config argument as an object (config || {}).
ConfigObject(arg) == IF Falsy(arg) THEN <<>> ELSE arg.o

(***************************************************************************)
(* defineClientApi, getLatestClientClass, loadClientClass                  *)
(***************************************************************************)
\* What a call that may define classes and load API files did: returned a
\* class (value, 0 when it returned undefined) or threw; the classes after
\* it; the versions it asked the resolver for and the keys the resolver gave;
\* the files it required and whether each was found.
Outcome(status, value, error, cl, requested, resolved, requires) ==
  [status |-> status, value |-> value, error |-> error, classes |-> cl,
   requested |-> requested, resolved |-> resolved, requires |-> requires]

\* superclass.clients[version] = client
SetEntry(registry, version, id) ==
  [registry EXCEPT !.entries =
     [k \in DOMAIN registry.entries \cup {version} |->
        IF k = version THEN ClassEntry(id) ELSE registry.entries[k]]]

defineClientApi(cl, files, superclass, version) ==
  LET id == Len(cl) + 1
      client == inherit(cl[superclass],
                        [serviceIdentifier |-> cl[superclass].serviceIdentifier])
  IN IF version.t = "string"
     THEN LET apiFile == ToStr(cl[superclass].serviceIdentifier) \o "-" \o version.s
          IN IF apiFile \in DOMAIN files
             THEN Outcome("returned", id, None,
                    Append([cl EXCEPT ![superclass].clients =
                                        SetEntry(cl[superclass].clients, version.s, id)],
                           defineMethods([client EXCEPT !.api = files[apiFile]])),
                    <<>>, <<>>, <<[file |-> apiFile, found |-> TRUE]>>)
             ELSE Outcome("threw", 0,
                    Threw("ApiConfiguration", ToStr(cl[superclass].serviceIdentifier), apiFile),
                    cl, <<>>, <<>>, <<[file |-> apiFile, found |-> FALSE]>>)
     ELSE Outcome("returned", id, None,
            Append(cl, defineMethods([client EXCEPT !.api = version.o])), <<>>, <<>>, <<>>)

\* getLatestClientClass without the test for null: the API is defined on
\* every resolution.
getLatestClientClassAlwaysDefines(cl, files, cls, version) ==
  LET r == getLatestClientVersion(cl[cls].clients, ToStr(cl[cls].serviceIdentifier), version)
  IN IF r.status = "threw"
     THEN Outcome("threw", 0, r, cl, <<version>>, <<>>, <<>>)
     ELSE LET d == defineClientApi(cl, files, cls, String(r.value))
          IN IF d.status = "threw"
             THEN [d EXCEPT !.requested = <<version>>, !.resolved = <<r.value>>]
             ELSE [d EXCEPT !.requested = <<version>>, !.resolved = <<r.value>>,
                            !.value = d.classes[cls].clients.entries[r.value].id]

\* getLatestClientClass that returns the class of the greatest version
\* defined so far, not of the version resolved.
getLatestClientClassGreatestDefined(cl, files, cls, version) ==
  LET r == getLatestClientVersion(cl[cls].clients, ToStr(cl[cls].serviceIdentifier), version)
  IN IF r.status = "threw"
     THEN Outcome("threw", 0, r, cl, <<version>>, <<>>, <<>>)
     ELSE LET d == IF cl[cls].clients.entries[r.value] = NullEntry
                   THEN defineClientApi(cl, files, cls, String(r.value))
                   ELSE Outcome("returned", 0, None, cl, <<>>, <<>>, <<>>)
              entries == d.classes[cls].clients.entries
              defined == {k \in DOMAIN entries : entries[k] # NullEntry}
          IN IF d.status = "threw"
             THEN [d EXCEPT !.requested = <<version>>, !.resolved = <<r.value>>]
             ELSE [d EXCEPT !.requested = <<version>>, !.resolved = <<r.value>>,
                            !.value = entries[CHOOSE k \in defined :
                                                \A j \in defined : StrLE(j, k)].id]

getLatestClientClass(cl, files, cls, version) ==
  LET r == getLatestClientVersion(cl[cls].clients, ToStr(cl[cls].serviceIdentifier), version)
  IN IF r.status = "threw"
     THEN Outcome("threw", 0, r, cl, <<version>>, <<>>, <<>>)
     ELSE LET d == IF cl[cls].clients.entries[r.value] = NullEntry
                   THEN defineClientApi(cl, files, cls, String(r.value))
                   ELSE Outcome("returned", 0, None, cl, <<>>, <<>>, <<>>)
          IN IF d.status = "threw"
             THEN [d EXCEPT !.requested = <<version>>, !.resolved = <<r.value>>]
             ELSE [d EXCEPT !.requested = <<version>>, !.resolved = <<r.value>>,
                            !.value = d.classes[cls].clients.entries[r.value].id]

\* apiVersion before the service's apiVersions entry.
requestedVersionApiVersionFirst(config, service) ==
  IF Falsy(config.apiVersion) THEN Get(config.apiVersions, service)
  ELSE config.apiVersion

\* version = config.apiVersions[serviceIdentifier]; version = version || config.apiVersion
requestedVersion(config, service) ==
  LET version == Get(config.apiVersions, service)
  IN IF Falsy(version) THEN config.apiVersion ELSE version

\* loadClientClass with the registry consulted before the inline apiConfig.
loadClientClassRegistryFirst(cl, files, global, cls, clientConfig) ==
  IF ~isEmpty(cl[cls].api)
  THEN Outcome("returned", 0, None, cl, <<>>, <<>>, <<>>)
  ELSE IF cl[cls].clients.defined
  THEN getLatestClientClass(cl, files, cls,
         requestedVersion(Update(NewConfig(global), clientConfig),
                          ToStr(cl[cls].serviceIdentifier)))
  ELSE IF ~Falsy(Get(clientConfig, "apiConfig"))
  THEN defineClientApi(cl, files, cls, clientConfig.apiConfig)
  ELSE Outcome("returned", 0, None, cl, <<>>, <<>>, <<>>)

loadClientClass(cl, files, global, cls, clientConfig) ==
  IF ~isEmpty(cl[cls].api)
  THEN Outcome("returned", 0, None, cl, <<>>, <<>>, <<>>)
  ELSE IF ~Falsy(Get(clientConfig, "apiConfig"))
  THEN defineClientApi(cl, files, cls, clientConfig.apiConfig)
  ELSE IF ~cl[cls].clients.defined
  THEN Outcome("returned", 0, None, cl, <<>>, <<>>, <<>>)
  ELSE getLatestClientClass(cl, files, cls,
         requestedVersion(Update(NewConfig(global), clientConfig),
                          ToStr(cl[cls].serviceIdentifier)))

(***************************************************************************)
(* setEndpoint, initialize                                                 *)
(***************************************************************************)
\* new AWS.Endpoint(host, config), by the host it was made from.
Endpoint(host) == [host |-> host]

\* setEndpoint with the API's global endpoint before the endpoint given.
setEndpointGlobalFirst(api, config, endpoint) ==
  IF ~Falsy(Get(api, "globalEndpoint")) THEN Endpoint(ToStr(api.globalEndpoint))
  ELSE IF ~Falsy(endpoint) THEN Endpoint(ToStr(endpoint))
  ELSE Endpoint(ToStr(Get(api, "endpointPrefix")) \o "." \o ToStr(config.region)
                \o ".amazonaws.com")

setEndpoint(api, config, endpoint) ==
  IF ~Falsy(endpoint) THEN Endpoint(ToStr(endpoint))
  ELSE IF ~Falsy(Get(api, "globalEndpoint")) THEN Endpoint(ToStr(api.globalEndpoint))
  ELSE Endpoint(ToStr(Get(api, "endpointPrefix")) \o "." \o ToStr(config.region)
                \o ".amazonaws.com")

\* The client that initialize makes of an instance of class cls.
initialize(cl, global, cls, arg) ==
  LET config == IF Falsy(arg) THEN NewConfig(global)
                ELSE Update(NewConfig(global), arg.o)
  IN [status |-> "client", cls |-> cls, api |-> cl[cls].api, config |-> config,
      endpoint |-> setEndpoint(cl[cls].api, config, config.endpoint)]

(***************************************************************************)
(* Client construction: new Type(config)                                   *)
(***************************************************************************)
MaxConstructs == 3   \* constructions in one behaviour
MaxDepth == 2        \* re-dispatches of the constructor before the stack is taken as exhausted

\* Global configurations: as loaded, and as the test suite sets them.
GlobalOptions ==
  {<<>>,
   [apiVersion |-> String("2002-03-04")],
   [apiVersions |-> [custom |-> String("2000-01-01")]],
   [apiVersions |-> [custom |-> String("2000-01-01")], apiVersion |-> String("2002-03-04")]}

CustomConfigs ==
  {Undefined,
   Object([apiVersion |-> String("1999-05-05")]),
   Object([apiVersion |-> String("2000-01-01")]),
   Object([apiVersion |-> String("1998-01-01")]),
   Object([apiVersions |-> [custom |-> String("2001-01-01")],
           apiVersion |-> String("1998-01-01")]),
   Object([apiVersions |-> <<>>]),
   Object([apiConfig |-> Object(InlineApi)]),
   Object([apiConfig |-> Object(InlineApi), apiVersion |-> String("1998-01-01")])}

\* The constructions of the model: a class and the config argument.
Constructions ==
  ({ClientId} \X {Undefined, Object([apiConfig |-> Object(InlineApi)]),
                  Object([apiConfig |-> Object(EmptyApi)])})
  \cup ({CustomId} \X CustomConfigs)
  \cup ({UnversionedId} \X {Undefined, Object([apiVersion |-> String("2000-01-01")])})
  \cup ({BoundId, MockId} \X {Undefined, Object([apiConfig |-> Object(InlineApi)])})

ApiFileNames == {"custom-1999-05-05", "custom-2001-01-01"}
\* What a file may export: the service's description, or (2001-01-01) an empty object.
ApiFileExports(file) ==
  IF file = "custom-1999-05-05" THEN {CatalogApi("custom", "1999-05-05")}
  ELSE {CatalogApi("custom", "2001-01-01"), EmptyApi}

NoConstruction ==
  [pc |-> "idle", n |-> 0, type |-> 0, arg |-> Undefined, cls |-> 0, depth |-> 0,
   requested |-> <<>>, resolved |-> <<>>, requires |-> <<>>, error |-> None,
   self |-> None]

\* The constructor with initialize before loadClientClass.
ConstructingInitializeFirst(n, type, arg) ==
  [pc |-> "load", n |-> n, type |-> type, arg |-> arg, cls |-> type, depth |-> 0,
   requested |-> <<>>, resolved |-> <<>>, requires |-> <<>>, error |-> None,
   self |-> initialize(classes, AWSconfig, type, arg)]

\* new Type(config) entered: the constructor of Type runs on a fresh object
\* and is about to call loadClientClass.
Constructing(n, type, arg) ==
  [pc |-> "load", n |-> n, type |-> type, arg |-> arg, cls |-> type, depth |-> 0,
   requested |-> <<>>, resolved |-> <<>>, requires |-> <<>>, error |-> None,
   self |-> None]

Init ==
  /\ vClients = NoRegistry
  /\ vVersion = Undefined
  /\ vResult = None
  /\ classes = LoadedClasses
  /\ apiFiles = <<>>
  /\ AWSconfig \in {Update(NewConfig(<<>>), o) : o \in GlobalOptions}
  /\ ctor = NoConstruction
  /\ RetryIdle
  /\ RequestIdle

New(type, arg) ==
  /\ ctor.pc \in {"idle", "done", "threw"}
  /\ ctor.n < MaxConstructs
  /\ ctor' = Constructing(ctor.n + 1, type, arg)
  /\ UNCHANGED <<classes, apiFiles, AWSconfig, versionVars, retryVars, requestVars>>

\* var ClientClass = this.loadClientClass(config || {});
\* if (ClientClass) return new ClientClass(config);
LoadClientClass ==
  /\ ctor.pc = "load"
  /\ LET r == loadClientClass(classes, apiFiles, AWSconfig, ctor.cls, ConfigObject(ctor.arg))
         c == [ctor EXCEPT !.requested = @ \o r.requested,
                           !.resolved = @ \o r.resolved,
                           !.requires = @ \o r.requires]
     IN /\ classes' = r.classes
        /\ ctor' = IF r.status = "threw"
                   THEN [c EXCEPT !.pc = "threw", !.error = r.error]
                   ELSE IF r.value = 0 THEN [c EXCEPT !.pc = "init"]
                   ELSE IF ctor.depth < MaxDepth
                   THEN [c EXCEPT !.pc = "load", !.cls = r.value, !.depth = @ + 1]
                   ELSE [c EXCEPT !.pc = "threw",
                                  !.error = Threw("RangeError", "",
                                                  "Maximum call stack size exceeded")]
  /\ UNCHANGED <<apiFiles, AWSconfig, versionVars, retryVars, requestVars>>

\* this.initialize(config);
Initialize ==
  /\ ctor.pc = "init"
  /\ ctor' = [ctor EXCEPT !.pc = "done",
                          !.self = initialize(classes, AWSconfig, ctor.cls, ctor.arg)]
  /\ UNCHANGED <<classes, apiFiles, AWSconfig, versionVars, retryVars, requestVars>>

\* An API file appears under services/api between two constructions.
InstallApiFile(file, exports) ==
  /\ ctor.pc \in {"idle", "done", "threw"}
  /\ file \notin DOMAIN apiFiles
  /\ apiFiles' = [f \in DOMAIN apiFiles \cup {file} |->
                    IF f = file THEN exports ELSE apiFiles[f]]
  /\ UNCHANGED <<classes, AWSconfig, ctor, versionVars, retryVars, requestVars>>

Next ==
  \/ \E c \in Constructions : New(c[1], c[2])
  \/ LoadClientClass
  \/ Initialize
  \/ \E file \in ApiFileNames : \E exports \in ApiFileExports(file) :
       InstallApiFile(file, exports)

Spec == Init /\ [][Next]_vars

(***************************************************************************)
(* Claims about client construction                                        *)
(***************************************************************************)
C_Ended == ctor.pc \in {"done", "threw"}
C_Arg == ConfigObject(ctor.arg)
C_InlineGiven == ~Falsy(Get(C_Arg, "apiConfig"))

C2_Case ==
  /\ C_Ended
  /\ isEmpty(classes[ctor.type].api)
  /\ ~C_InlineGiven
  /\ classes[ctor.type].clients.defined
  /\ DOMAIN classes[ctor.type].clients.entries = {}

\* C2: constructing a client of a type whose version registry exists but is
\* empty fails with "No clients defined on {service}", whatever version is
\* requested, and not with the version-constraint error.
C2_EmptyRegistryNoClientsDefined ==
  C2_Case =>
    /\ ctor.pc = "threw"
    /\ ctor.error =
         Threw("NoClientsDefined", ToStr(classes[ctor.type].serviceIdentifier), "")

C3_ResolutionFailed ==
  /\ ctor.pc = "threw"
  /\ ctor.error.error \in {"NoClientsDefined", "VersionConstraint", "ApiConfiguration"}

\* C3: when version resolution fails (no key satisfies the request, or the
\* API file of the resolved version cannot be loaded) the constructor throws
\* and no client was initialised: there is no config, no endpoint and no
\* object to call an operation on; and a client that was constructed never
\* is of a versioned type whose API is still unresolved.
C3_FailsAtConstruction ==
  /\ C3_ResolutionFailed => ctor.self = None
  /\ ctor.pc \in {"load", "init"} => ctor.self = None
  /\ ctor.pc = "done" =>
       /\ ctor.self.status = "client"
       /\ ~(isEmpty(ctor.self.api) /\ classes[ctor.self.cls].clients.defined)

C3_Witness ==
  /\ ctor.pc = "threw"
  /\ ctor.type = CustomId
  /\ ctor.error = Threw("VersionConstraint", ServiceId, "1998-01-01")
  /\ ctor.self = None

\* The effective config: the client's override where it gives the key, else
\* the global value.
C4_Effective(key) == IF key \in DOMAIN C_Arg THEN C_Arg[key] ELSE AWSconfig[key]
C4_Service == ToStr(classes[ctor.type].serviceIdentifier)
C4_Expected ==
  IF C4_Service \in DOMAIN C4_Effective("apiVersions")
  THEN C4_Effective("apiVersions")[C4_Service].s
  ELSE IF C4_Effective("apiVersion") \notin {Null, Undefined}
  THEN C4_Effective("apiVersion").s
  ELSE "latest"
C4_Name(v) == IF v \in {Null, Undefined} THEN "latest" ELSE v.s

\* C4: the version asked of the resolver is the effective config's apiVersions
\* entry for the service if there is one, else its apiVersion if set, else
\* "latest"; the resolver is asked once.
C4_VersionPriority ==
  ctor.requested # <<>> =>
    /\ Len(ctor.requested) = 1
    /\ C4_Name(ctor.requested[1]) = C4_Expected

\* Both are set and differ, and the service's entry was asked for.
C4_Witness ==
  /\ C_Ended
  /\ ctor.requested # <<>>
  /\ C4_Service \in DOMAIN C4_Effective("apiVersions")
  /\ C4_Effective("apiVersion") \notin {Null, Undefined}
  /\ C4_Effective("apiVersion") # C4_Effective("apiVersions")[C4_Service]
  /\ ctor.requested[1] = C4_Effective("apiVersions")[C4_Service]

C5_Inline == ctor.pc # "idle" /\ isEmpty(classes[ctor.type].api) /\ C_InlineGiven
C5_Prebound == ctor.pc # "idle" /\ ~isEmpty(classes[ctor.type].api)

C5_State ==
  /\ (C5_Inline \/ C5_Prebound) =>
       ctor.requested = <<>> /\ ctor.resolved = <<>> /\ ctor.requires = <<>>
  /\ (C5_Inline /\ ctor.pc = "done") =>
       ctor.self.api = C_Arg.apiConfig.o /\ ctor.depth = 1
  /\ (C5_Prebound /\ ctor.pc = "done") =>
       ctor.self.api = classes[ctor.type].api /\ ctor.self.cls = ctor.type /\ ctor.depth = 0

C5_Frame ==
  (ctor.pc \in {"load", "init"} /\ (C5_Inline \/ C5_Prebound)) =>
    /\ \A c \in DOMAIN classes : classes'[c].clients = classes[c].clients
    /\ \A c \in DOMAIN classes' \ DOMAIN classes : ~classes'[c].clients.defined
    /\ apiFiles' = apiFiles

\* C5: a construction with an inline apiConfig on a type without a bound API
\* never asks the resolver, never requires an API file and changes no
\* registry, and the client it makes has the inline descriptor as its API; a
\* type with a non-empty API gives a client of that very class and API, again
\* without resolver, loader or registry change.
C5_InlineBindsDirectly == [](C5_State) /\ [][C5_Frame]_vars

\* An inline descriptor on the versioned type, with an unsatisfiable apiVersion beside it.
C5_Witness ==
  /\ ctor.pc = "done"
  /\ ctor.type = CustomId
  /\ ctor.arg = Object([apiConfig |-> Object(InlineApi), apiVersion |-> String("1998-01-01")])
  /\ ctor.self.api = InlineApi

C6_File(c, k) == ToStr(classes[c].serviceIdentifier) \o "-" \o k
C6_Registry ==
  \A c \in DOMAIN classes :
    /\ classes'[c].clients.defined = classes[c].clients.defined
    /\ DOMAIN classes'[c].clients.entries = DOMAIN classes[c].clients.entries
    /\ \A k \in DOMAIN classes[c].clients.entries :
         LET old == classes[c].clients.entries[k]
             new == classes'[c].clients.entries[k]
         IN /\ old # NullEntry => new = old
            /\ (old = NullEntry /\ new # NullEntry) =>
                 /\ new = ClassEntry(Len(classes) + 1)
                 /\ C6_File(c, k) \in DOMAIN apiFiles
                 /\ ctor'.requires =
                      Append(ctor.requires, [file |-> C6_File(c, k), found |-> TRUE])
C6_FailedLoad ==
  (/\ Len(ctor'.requires) > Len(ctor.requires)
   /\ ~ctor'.requires[Len(ctor'.requires)].found) => classes' = classes
C6_Resolution ==
  (ctor.pc = "load" /\ ctor'.n = ctor.n /\ ctor'.resolved # ctor.resolved) =>
    LET k == ctor'.resolved[Len(ctor'.resolved)]
        old == classes[ctor.cls].clients.entries[k]
    IN /\ old = NullEntry =>
            ctor'.requires =
              Append(ctor.requires, [file |-> C6_File(ctor.cls, k),
                                     found |-> C6_File(ctor.cls, k) \in DOMAIN apiFiles])
       /\ old # NullEntry =>
            /\ ctor'.requires = ctor.requires
            /\ classes' = classes
            /\ ctor'.pc = "load" /\ ctor'.cls = old.id

\* C6: a registry keeps its key set; an entry changes only from null to a
\* newly bound class and only in a step whose load of that version's file
\* succeeded; a failed load changes nothing, so the next resolution of the
\* version loads again; a resolved version is answered with the same class
\* and without a load.
C6_RegistryMemoizes == [][C6_Registry /\ C6_FailedLoad /\ C6_Resolution]_vars

\* A construction answered from the registry: a version resolved, nothing loaded.
C6_Witness ==
  /\ ctor.pc = "done"
  /\ ctor.type = CustomId
  /\ ctor.resolved = <<"1999-05-05">>
  /\ ctor.requires = <<>>
  /\ ctor.self.api = CatalogApi("custom", "1999-05-05")

(***************************************************************************)
(* Retry policy: numRetries, retryDelays, retryableError                   *)
(***************************************************************************)
defaultRetryCount == 3

\* if (this.config.maxRetries) in place of the comparison with undefined.
numRetriesIfTruthy(client) ==
  IF client.config.maxRetries.t = "number" /\ client.config.maxRetries.n # 0
  THEN client.config.maxRetries.n
  ELSE client.defaultRetryCount

numRetries(client) ==
  IF client.config.maxRetries # Undefined THEN client.config.maxRetries.n
  ELSE client.defaultRetryCount

\* Math.pow(b, e) for a natural exponent.
RECURSIVE Pow(_, _)
Pow(b, e) == IF e = 0 THEN 1 ELSE b * Pow(b, e - 1)

\* for (i = 0; i < retryCount; ++i) delays[i] = ...  (delays is indexed from 1 here)
RECURSIVE DelaysFrom(_, _, _)
DelaysFrom(i, retryCount, delays) ==
  IF i < retryCount THEN DelaysFrom(i + 1, retryCount, Append(delays, Pow(2, i) * 30))
  ELSE delays

\* The loop with i <= retryCount.
RECURSIVE DelaysFromInclusive(_, _, _)
DelaysFromInclusive(i, retryCount, delays) ==
  IF i <= retryCount
  THEN DelaysFromInclusive(i + 1, retryCount, Append(delays, Pow(2, i) * 30))
  ELSE delays

\* The loop with the arguments of Math.pow exchanged.
RECURSIVE DelaysFromPowExchanged(_, _, _)
DelaysFromPowExchanged(i, retryCount, delays) ==
  IF i < retryCount
  THEN DelaysFromPowExchanged(i + 1, retryCount, Append(delays, Pow(i, 2) * 30))
  ELSE delays

retryDelaysInclusive(client) == DelaysFromInclusive(0, numRetries(client), <<>>)
retryDelaysPowExchanged(client) == DelaysFromPowExchanged(0, numRetries(client), <<>>)

retryDelays(client) == DelaysFrom(0, numRetries(client), <<>>)

networkingError(error) == error.code = String("NetworkingError")
expiredCredentialsError(error) == error.code = String("ExpiredTokenException")
throttledError(error) == error.code = String("ProvisionedThroughputExceededException")
\* error.statusCode >= 500, which is false of an absent status.
StatusAtLeast500(error) == error.statusCode.t = "number" /\ error.statusCode.n >= 500

\* retryableError with > 500 in place of >= 500.
retryableErrorAbove500(error) ==
  IF networkingError(error) THEN TRUE
  ELSE IF expiredCredentialsError(error) THEN TRUE
  ELSE IF throttledError(error) THEN TRUE
  ELSE IF error.statusCode.t = "number" /\ error.statusCode.n > 500 THEN TRUE
  ELSE FALSE

retryableError(error) ==
  IF networkingError(error) THEN TRUE
  ELSE IF expiredCredentialsError(error) THEN TRUE
  ELSE IF throttledError(error) THEN TRUE
  ELSE IF StatusAtLeast500(error) THEN TRUE
  ELSE FALSE

MaxRetriesSet == 3   \* the greatest config.maxRetries of the model

ErrorCodes ==
  {Undefined, String("NetworkingError"), String("ExpiredTokenException"),
   String("ProvisionedThroughputExceededException"), String("Error"),
   String("RandomError"), String("ServiceError")}
StatusCodes == {Undefined} \cup {Number(n) : n \in {200, 302, 400, 404, 499, 500, 501, 505}}
Errors == [code : ErrorCodes, statusCode : StatusCodes]

\* Clients by what decides their retries: config.maxRetries (unset or set) and
\* defaultRetryCount (the prototype's, or an override as in the test suite).
RetryClients ==
  [config : [maxRetries : {Undefined} \cup {Number(n) : n \in 0..MaxRetriesSet}],
   defaultRetryCount : {defaultRetryCount, 1}]

PolicyInit ==
  /\ vClients = NoRegistry
  /\ vVersion = Undefined
  /\ vResult = None
  /\ ClientsIdle
  /\ rClient \in RetryClients
  /\ rError \in Errors
  /\ rCall = None
  /\ request = None
  /\ RequestIdle

CallRetryableError ==
  /\ rCall = None
  /\ rCall' = [status |-> "retryableError", result |-> retryableError(rError)]
  /\ UNCHANGED <<rClient, rError, request, versionVars, clientVars, requestVars>>

CallRetryDelays ==
  /\ rCall = None
  /\ rCall' = [status |-> "retryDelays", result |-> retryDelays(rClient)]
  /\ UNCHANGED <<rClient, rError, request, versionVars, clientVars, requestVars>>

CallNumRetries ==
  /\ rCall = None
  /\ rCall' = [status |-> "numRetries", result |-> numRetries(rClient)]
  /\ UNCHANGED <<rClient, rError, request, versionVars, clientVars, requestVars>>

PolicyNext == CallRetryableError \/ CallRetryDelays \/ CallNumRetries

SpecPolicy == PolicyInit /\ [][PolicyNext]_vars

\* The retry limit of the client: config.maxRetries if set, else defaultRetryCount.
C_RetryLimit ==
  IF rClient.config.maxRetries.t = "number" THEN rClient.config.maxRetries.n
  ELSE rClient.defaultRetryCount

C7_NamedCode ==
  rError.code \in {String("NetworkingError"), String("ExpiredTokenException"),
                   String("ProvisionedThroughputExceededException")}
C7_HasStatus == rError.statusCode # Undefined

\* C7: retryableError is true of a networking error, of the codes
\* ExpiredTokenException and ProvisionedThroughputExceededException and of
\* any status >= 500, and false of every other error: of any other code with
\* a status below 500 or with no status.
C7_RetryableExactly ==
  rCall.status = "retryableError" =>
    /\ C7_NamedCode => rCall.result
    /\ (C7_HasStatus /\ rError.statusCode.n >= 500) => rCall.result
    /\ (~C7_NamedCode /\ C7_HasStatus /\ rError.statusCode.n < 500) => ~rCall.result
    /\ (~C7_NamedCode /\ ~C7_HasStatus) => ~rCall.result

\* The throttling code under a 400 is retried; the test suite's case.
C7_Witness ==
  /\ rCall = [status |-> "retryableError", result |-> TRUE]
  /\ rError = [code |-> String("ProvisionedThroughputExceededException"),
               statusCode |-> Number(400)]

\* C8: retryDelays has exactly numRetries() entries, entry i is 2^i * 30,
\* the entries strictly increase, and the schedule is empty for a limit of 0.
C8_DelaySchedule ==
  rCall.status = "retryDelays" =>
    /\ Len(rCall.result) = C_RetryLimit
    /\ \A i \in 0..(C_RetryLimit - 1) : rCall.result[i + 1] = (2 ^ i) * 30
    /\ \A i, j \in 1..Len(rCall.result) : i < j => rCall.result[i] < rCall.result[j]
    /\ C_RetryLimit = 0 => rCall.result = <<>>

C8_Witness ==
  /\ rClient.config.maxRetries = Undefined
  /\ rClient.defaultRetryCount = 3
  /\ rCall = [status |-> "retryDelays", result |-> <<30, 60, 120>>]

\* C9: numRetries is config.maxRetries whenever that is set, 0 included, and
\* the client's defaultRetryCount otherwise, which is 3 on the prototype.
C9_NumRetries ==
  rCall.status = "numRetries" =>
    /\ rClient.config.maxRetries # Undefined =>
         rCall.result = rClient.config.maxRetries.n
    /\ rClient.config.maxRetries = Undefined =>
         rCall.result = rClient.defaultRetryCount
    /\ (rClient.config.maxRetries = Undefined
        /\ rClient.defaultRetryCount = defaultRetryCount) => rCall.result = 3

\* maxRetries set to 0 while the default is 3.
C9_Witness ==
  /\ rClient = [config |-> [maxRetries |-> Number(0)], defaultRetryCount |-> 3]
  /\ rCall = [status |-> "numRetries", result |-> 0]

(***************************************************************************)
(* A request sent: attempts, the retry decision, the wait, the delivery    *)
(***************************************************************************)
\* What an attempt ends in: data (no error) or an error.
AttemptOutcomes ==
  {Null,
   [code |-> String("ServiceError"), statusCode |-> Number(500)],
   [code |-> String("NetworkingError"), statusCode |-> Undefined],
   [code |-> String("ProvisionedThroughputExceededException"), statusCode |-> Number(400)],
   [code |-> String("Error"), statusCode |-> Number(404)]}

\* A request made and not yet sent.
NewRequest ==
  [pc |-> "new", retryCount |-> 0, outcomes |-> <<>>, waited |-> <<>>,
   delivered |-> <<>>]

RetryInit ==
  /\ vClients = NoRegistry
  /\ vVersion = Undefined
  /\ vResult = None
  /\ ClientsIdle
  /\ rClient \in RetryClients
  /\ rError = <<>>
  /\ rCall = None
  /\ request = NewRequest
  /\ RequestIdle

\* request.send(): the first attempt starts.
Send ==
  /\ request.pc = "new"
  /\ request' = [request EXCEPT !.pc = "attempt"]
  /\ UNCHANGED <<rClient, rError, rCall, versionVars, clientVars, requestVars>>

\* An attempt ends. Data completes the request; an error is retried when it
\* is retryable and the retry count is below the limit, else it completes
\* the request and goes to the callback.
Attempt(outcome) ==
  /\ request.pc = "attempt"
  /\ LET r == [request EXCEPT !.outcomes = Append(@, outcome)]
     IN request' =
          IF outcome = Null
          THEN [r EXCEPT !.pc = "complete",
                         !.delivered = Append(@, [error |-> Null, data |-> String("data")])]
          ELSE IF retryableError(outcome) /\ request.retryCount < numRetries(rClient)
          THEN [r EXCEPT !.pc = "waiting", !.retryCount = @ + 1]
          ELSE [r EXCEPT !.pc = "complete",
                         !.delivered =
                           Append(@, [error |-> [code |-> outcome.code,
                                                 statusCode |-> outcome.statusCode,
                                                 retryable |-> retryableError(outcome)],
                                      data |-> Null])]
  /\ UNCHANGED <<rClient, rError, rCall, versionVars, clientVars, requestVars>>

\* The delay scheduled for this retry has passed: the next attempt starts.
RetryAfterDelay ==
  /\ request.pc = "waiting"
  /\ request' = [request EXCEPT !.pc = "attempt",
                                !.waited = Append(@, retryDelays(rClient)[request.retryCount])]
  /\ UNCHANGED <<rClient, rError, rCall, versionVars, clientVars, requestVars>>

RetryNext ==
  \/ Send
  \/ \E outcome \in AttemptOutcomes : Attempt(outcome)
  \/ RetryAfterDelay

SpecRetry == RetryInit /\ [][RetryNext]_vars

C10_Retryable(e) ==
  /\ e # Null
  /\ \/ e.code \in {String("NetworkingError"), String("ExpiredTokenException"),
                    String("ProvisionedThroughputExceededException")}
     \/ (e.statusCode # Undefined /\ e.statusCode.n >= 500)
\* The attempts that were followed by a retry.
C10_Retried ==
  IF request.pc \in {"waiting", "new"} THEN 1..Len(request.outcomes)
  ELSE 1..(Len(request.outcomes) - 1)

\* C10: a sent request makes at most maxRetries + 1 attempts; every attempt
\* that was followed by a retry ended in a retryable error and had an index
\* below maxRetries; the wait before retry i is 2^i * 30; and with
\* maxRetries = 0 a status-500 response gives one attempt, no wait, and the
\* service error in the one delivery to the callback.
C10_BoundedRetries ==
  /\ Len(request.outcomes) <= C_RetryLimit + 1
  /\ request.pc = "attempt" => Len(request.outcomes) <= C_RetryLimit
  /\ \A i \in C10_Retried :
       C10_Retryable(request.outcomes[i]) /\ i - 1 < C_RetryLimit
  /\ Len(request.waited) =
       IF request.pc = "attempt" THEN Len(request.outcomes)
       ELSE IF request.pc = "new" THEN 0
       ELSE Len(request.outcomes) - 1
  /\ \A i \in 1..Len(request.waited) : request.waited[i] = (2 ^ (i - 1)) * 30
  /\ Len(request.delivered) = IF request.pc = "complete" THEN 1 ELSE 0
  /\ (/\ C_RetryLimit = 0
      /\ request.outcomes # <<>>
      /\ request.outcomes[1] # Null
      /\ request.outcomes[1].statusCode = Number(500)) =>
       /\ request.pc = "complete"
       /\ Len(request.outcomes) = 1
       /\ request.waited = <<>>
       /\ request.delivered[1].data = Null
       /\ request.delivered[1].error.statusCode = Number(500)

\* maxRetries: 0 and a status 500: one attempt, the error delivered, no wait.
C10_Witness ==
  /\ rClient.config.maxRetries = Number(0)
  /\ request.pc = "complete"
  /\ request.outcomes = <<[code |-> String("ServiceError"), statusCode |-> Number(500)]>>
  /\ request.waited = <<>>
  /\ request.delivered =
       <<[error |-> [code |-> String("ServiceError"), statusCode |-> Number(500),
                     retryable |-> TRUE],
          data |-> Null]>>

(***************************************************************************)
(* Requests: the calls made on a Request and what they amount to           *)
(***************************************************************************)
\* new AWS.Request(client, operation, params): the Request of client number
\* client, with the calls made on it so far, in order, the console's mark
\* __hasBeenSent__, and the responses its sends have completed with.
Request(client, operation, params) ==
  [client |-> client, operation |-> operation, params |-> params, calls |-> <<>>,
   hasBeenSent |-> FALSE, responses |-> <<>>]

\* A set of listeners (AWS.events, AWS.EventListeners.Core, ...): an object
\* with its (phase, handler) pairs in order.
ListenerSet(name, handlers) == [t |-> "object", name |-> name, handlers |-> handlers]
Listener(phase, handler) == [phase |-> phase, handler |-> handler]

\* request.addListeners(set), request.removeListener(phase, handler),
\* request.on(phase, handler), request.send(): the call is recorded.
addListeners(req, set) ==
  [req EXCEPT !.calls =
     Append(@, [method |-> "addListeners", set |-> set.name, handlers |-> set.handlers])]
removeListener(req, phase, handler) ==
  [req EXCEPT !.calls =
     Append(@, [method |-> "removeListener", phase |-> phase, handler |-> handler])]
on(req, phase, handler, by) ==
  [req EXCEPT !.calls =
     Append(@, [method |-> "on", phase |-> phase, handler |-> handler, by |-> by])]
send(req, by) == [req EXCEPT !.calls = Append(@, [method |-> "send", by |-> by])]

\* The listeners a sequence of calls leaves attached, in attachment order,
\* each with the set or caller it came from.
RECURSIVE Attached(_)
Attached(calls) ==
  IF calls = <<>> THEN <<>>
  ELSE LET before == Attached(SubSeq(calls, 1, Len(calls) - 1))
           c == calls[Len(calls)]
       IN IF c.method = "addListeners"
          THEN before \o [i \in 1..Len(c.handlers) |->
                            [phase |-> c.handlers[i].phase,
                             handler |-> c.handlers[i].handler, from |-> c.set]]
          ELSE IF c.method = "on"
          THEN Append(before, [phase |-> c.phase, handler |-> c.handler, from |-> c.by])
          ELSE IF c.method = "removeListener"
          THEN SelectSeq(before, LAMBDA l : ~(l.phase = c.phase /\ l.handler = c.handler))
          ELSE before

\* The handlers of a phase, in the order they are invoked.
Handlers(req, phase) == SelectSeq(Attached(req.calls), LAMBDA l : l.phase = phase)
\* The sends started on a request.
Sends(req) == SelectSeq(req.calls, LAMBDA c : c.method = "send")

(***************************************************************************)
(* serviceInterface, addAllRequestListeners, makeRequest                   *)
(***************************************************************************)
\* The name of the listener set of each format.
FormatSets == {"Query", "Json", "RestJson", "RestXml"}

\* serviceInterface with no error for a format it does not know.
serviceInterfaceIgnoresUnknown(sets, api) ==
  LET format == Get(api, "format")
  IN IF format = String("query") THEN Returned(ListenerSet("Query", sets.Query))
     ELSE IF format = String("json") THEN Returned(ListenerSet("Json", sets.Json))
     ELSE IF format = String("rest-json") THEN Returned(ListenerSet("RestJson", sets.RestJson))
     ELSE IF format = String("rest-xml") THEN Returned(ListenerSet("RestXml", sets.RestXml))
     ELSE Returned(Undefined)

\* switch (this.api.format) ...; if (this.api.format) throw ...; else undefined.
serviceInterface(sets, api) ==
  LET format == Get(api, "format")
  IN IF format = String("query") THEN Returned(ListenerSet("Query", sets.Query))
     ELSE IF format = String("json") THEN Returned(ListenerSet("Json", sets.Json))
     ELSE IF format = String("rest-json") THEN Returned(ListenerSet("RestJson", sets.RestJson))
     ELSE IF format = String("rest-xml") THEN Returned(ListenerSet("RestXml", sets.RestXml))
     ELSE IF ~Falsy(format) THEN Threw("InvalidServiceFormat", "", ToStr(format))
     ELSE Returned(Undefined)

\* for (...) if (list[i]) request.addListeners(list[i]);
RECURSIVE AddEach(_, _, _)
AddEach(req, list, i) ==
  IF i > Len(list) THEN req
  ELSE AddEach(IF ~Falsy(list[i]) THEN addListeners(req, list[i]) ELSE req, list, i + 1)

\* this.setupRequestListeners(request): the prototype's adds nothing; a
\* client type's own adds its listeners with request.on, in order.
RECURSIVE OnEach(_, _, _)
OnEach(req, adds, i) ==
  IF i > Len(adds) THEN req
  ELSE OnEach(on(req, adds[i].phase, adds[i].handler, "client"), adds, i + 1)

setupRequestListeners(members, req) ==
  IF "adds" \in DOMAIN members.setupRequestListeners
  THEN OnEach(req, members.setupRequestListeners.adds, 1)
  ELSE req

\* addAllRequestListeners with the validation handler removed before the
\* listener sets are attached.
addAllRequestListenersRemoveFirst(sets, members, client, req) ==
  LET interface == serviceInterface(sets, client.api)
  IN IF interface.status = "threw" THEN interface
     ELSE LET list == <<ListenerSet("events", sets.events),
                        ListenerSet("Core", sets.Core), interface.value>>
              removed == IF ~client.config.paramValidation
                         THEN removeListener(req, "validate", "VALIDATE_PARAMETERS")
                         ELSE req
          IN Returned(setupRequestListeners(members, AddEach(removed, list, 1)))

\* addAllRequestListeners with the client's own listeners set up before the
\* listener sets are attached.
addAllRequestListenersSetupFirst(sets, members, client, req) ==
  LET interface == serviceInterface(sets, client.api)
  IN IF interface.status = "threw" THEN interface
     ELSE LET list == <<ListenerSet("events", sets.events),
                        ListenerSet("Core", sets.Core), interface.value>>
              added == AddEach(setupRequestListeners(members, req), list, 1)
          IN Returned(IF ~client.config.paramValidation
                      THEN removeListener(added, "validate", "VALIDATE_PARAMETERS")
                      ELSE added)

addAllRequestListeners(sets, members, client, req) ==
  LET interface == serviceInterface(sets, client.api)
  IN IF interface.status = "threw" THEN interface
     ELSE LET list == <<ListenerSet("events", sets.events),
                        ListenerSet("Core", sets.Core), interface.value>>
              added == AddEach(req, list, 1)
              removed == IF ~client.config.paramValidation
                         THEN removeListener(added, "validate", "VALIDATE_PARAMETERS")
                         ELSE added
          IN Returned(setupRequestListeners(members, removed))

\* makeRequest that sends the request whether or not a callback is given.
makeRequestAlwaysSends(sets, members, id, client, operation, params, callback) ==
  LET cb == IF params.t = "function" THEN params ELSE callback
      ps == IF params.t = "function" THEN Object(<<>>) ELSE params
      added == addAllRequestListeners(sets, members, client, Request(id, operation, ps))
  IN IF added.status = "threw" THEN added
     ELSE Returned(IF ~Falsy(cb)
                   THEN send(on(added.value, "complete", cb.name, "makeRequest"), "makeRequest")
                   ELSE send(added.value, "makeRequest"))

makeRequest(sets, members, id, client, operation, params, callback) ==
  LET cb == IF params.t = "function" THEN params ELSE callback
      ps == IF params.t = "function" THEN Object(<<>>) ELSE params
      added == addAllRequestListeners(sets, members, client, Request(id, operation, ps))
  IN IF added.status = "threw" THEN added
     ELSE Returned(IF ~Falsy(cb)
                   THEN send(on(added.value, "complete", cb.name, "makeRequest"), "makeRequest")
                   ELSE added.value)

(***************************************************************************)
(* A client in use: operations called on it, requests sent by the caller   *)
(* and by the console, responses                                           *)
(***************************************************************************)
MaxRequests == 1   \* requests made in one behaviour
MaxSends == 1      \* sends started on one request by its caller
MaxCommands == 2   \* commands of the console that make a request, in one behaviour

\* API descriptors by format, as the test suite's MockClient has them.
ApiOfFormat(format) ==
  [format |-> format, endpointPrefix |-> String("fooservice"),
   operations |-> {"operation"}]
NoFormatApi == [endpointPrefix |-> String("fooservice"), operations |-> {"operation"}]
\* A one-off descriptor with an operation named as a member of the prototype.
InlineOperations == [operations |-> {"operationName", "setEndpoint"}]
\* A client type with its own setupRequestListeners and a hand-written
\* method named as one of its operations.
OwnFeatures ==
  [setupRequestListeners |->
     [t |-> "function", name |-> "setupRequestListeners",
      adds |-> <<Listener("build", "Own.BUILD"), Listener("complete", "Own.COMPLETE")>>],
   operation |-> Function("operation")]
OwnApi ==
  [format |-> String("json"), endpointPrefix |-> String("fooservice"),
   operations |-> {"operation", "otherOperation"}]

\* The classes of this specification: AWS.Client, one class per format, one
\* without a format, one with a format that is none of the four, and the
\* type with its own features.
RequestClasses ==
  <<AWSClient,
    defineClient(Object(BoundApi), Undefined, Undefined),
    defineClient(Object(ApiOfFormat(String("query"))), Undefined, Undefined),
    defineClient(Object(ApiOfFormat(String("rest-json"))), Undefined, Undefined),
    defineClient(Object(ApiOfFormat(String("rest-xml"))), Undefined, Undefined),
    defineClient(Object(NoFormatApi), Undefined, Undefined),
    defineClient(Object(ApiOfFormat(String("soap"))), Undefined, Undefined),
    defineClient(Object(OwnApi), Object(OwnFeatures), Undefined)>>

RequestConstructions ==
  ((1..Len(RequestClasses)) \X {Undefined, Object([paramValidation |-> FALSE])})
  \cup {<<ClientId, Object([apiConfig |-> Object(InlineOperations)])>>}

\* The shared listener sets: AWS.events as loaded, with the test suite's
\* listener, or with the console's logger; Core with or without the
\* parameter validation handler; the format sets.
CoreListeners(validation, more) ==
  <<Listener("validate", "VALIDATE_CREDENTIALS"), Listener("validate", "VALIDATE_REGION")>>
  \o (IF validation THEN <<Listener("validate", "VALIDATE_PARAMETERS")>> ELSE <<>>)
  \o <<Listener("sign", "SIGN"), Listener("send", "SEND")>> \o more
FormatListeners(name, more) ==
  <<Listener("build", name \o ".BUILD"), Listener("extractData", name \o ".EXTRACT_DATA"),
    Listener("extractError", name \o ".EXTRACT_ERROR")>> \o more
Registry(events, core, complete) ==
  [events |-> events, Core |-> core,
   Query |-> FormatListeners("Query", IF complete THEN <<Listener("complete", "Query.COMPLETE")>> ELSE <<>>),
   Json |-> FormatListeners("Json", IF complete THEN <<Listener("complete", "Json.COMPLETE")>> ELSE <<>>),
   RestJson |-> FormatListeners("RestJson", <<>>),
   RestXml |-> FormatListeners("RestXml", <<>>)]
ListenerRegistries ==
  {Registry(<<>>, CoreListeners(TRUE, <<>>), FALSE),
   Registry(<<Listener("complete", "event")>>, CoreListeners(FALSE, <<>>), FALSE),
   Registry(<<Listener("send", "logger.send"), Listener("complete", "logger.complete")>>,
            CoreListeners(TRUE, <<Listener("complete", "Core.COMPLETE")>>), TRUE)}

\* The arguments of the calls: params absent, given, or a callback in its
\* place; the callback absent or given.
ParamsArguments ==
  {Undefined, Object([Key |-> String("value")]), Function("callbackAsParams")}
CallbackArguments == {Undefined, Function("callback")}

\* What a response ends with: data, or an error.
Succeeded == [error |-> Null, data |-> String("FOOBAR")]
Failed == [error |-> String("ServiceError"), data |-> Null]

\* repl.context as the console starts.
NewContext == [data |-> Null, error |-> Null, request |-> Null, response |-> Null]

RequestInit ==
  /\ vClients = NoRegistry
  /\ vVersion = Undefined
  /\ vResult = None
  /\ classes = RequestClasses
  /\ apiFiles = <<>>
  /\ AWSconfig = NewConfig(<<>>)
  /\ ctor = NoConstruction
  /\ RetryIdle
  /\ listeners \in ListenerRegistries
  /\ requests = <<>>
  /\ call = None
  /\ context = NewContext
  /\ kept = None

\* The record of a call of method with these arguments that ended as r did.
Called(method, operation, params, callback, console, r) ==
  [method |-> method, operation |-> operation, params |-> params,
   callback |-> callback, console |-> console, status |-> r.status,
   error |-> IF r.status = "threw" THEN r ELSE None,
   value |-> IF r.status = "threw" THEN 0 ELSE Len(requests) + 1]

\* The methods of the client that defineMethods made.
Operations(members) == {m \in DOMAIN members : "method" \in DOMAIN members[m]}

\* client.makeRequest(operation, params, callback)
MakeRequest(operation, params, callback) ==
  /\ ctor.pc = "done"
  /\ Len(requests) < MaxRequests
  /\ LET r == makeRequest(listeners, classes[ctor.self.cls].members, ctor.n, ctor.self,
                          operation, params, callback)
     IN /\ requests' = IF r.status = "threw" THEN requests ELSE Append(requests, r.value)
        /\ call' = Called("makeRequest", operation, params, callback, FALSE, r)
  /\ UNCHANGED <<listeners, context, kept, clientVars, versionVars, retryVars>>

\* client[method](params, callback), for a method that defineMethods made.
CallOperation(method, params, callback) ==
  /\ ctor.pc = "done"
  /\ Len(requests) < MaxRequests
  /\ method \in Operations(classes[ctor.self.cls].members)
  /\ LET members == classes[ctor.self.cls].members
         r == makeRequest(listeners, members, ctor.n, ctor.self,
                          members[method].method, params, callback)
     IN /\ requests' = IF r.status = "threw" THEN requests ELSE Append(requests, r.value)
        /\ call' = Called(method, members[method].method, params, callback, FALSE, r)
  /\ UNCHANGED <<listeners, context, kept, clientVars, versionVars, retryVars>>

\* request.send() called by the code that holds the request.
CallerSend(i) ==
  /\ i \in 1..Len(requests)
  /\ Len(Sends(requests[i])) < MaxSends
  /\ requests' = [requests EXCEPT ![i] = send(@, "caller")]
  /\ UNCHANGED <<listeners, call, context, kept, clientVars, versionVars, retryVars>>

\* A Request as a value of the console, and the response its send returns.
RequestValue(i) == [t |-> "request", id |-> i]
ResponseValue(i) == [t |-> "response", id |-> i]

\* customEval once the command is evaluated to value: a Request not yet
\* marked is marked, gets the console's complete listener, becomes
\* context.request, and is sent.
customEval(reqs, ctx, value) ==
  IF value.t = "request" /\ ~reqs[value.id].hasBeenSent
  THEN [requests |->
          [reqs EXCEPT ![value.id] =
             send(on([@ EXCEPT !.hasBeenSent = TRUE], "complete",
                     "consoleDataExtraction", "console"), "console")],
        context |-> [data |-> Null, error |-> Null, request |-> value,
                     response |-> ResponseValue(value.id)]]
  ELSE [requests |-> reqs, context |-> ctx]

\* The console evaluates client[method](params, callback).
EvaluateCall(method, params, callback) ==
  /\ ctor.pc = "done"
  /\ Len(requests) < MaxCommands
  /\ method \in Operations(classes[ctor.self.cls].members)
  /\ LET members == classes[ctor.self.cls].members
         r == makeRequest(listeners, members, ctor.n, ctor.self,
                          members[method].method, params, callback)
         e == customEval(Append(requests, r.value), context,
                         RequestValue(Len(requests) + 1))
     IN /\ call' = Called(method, members[method].method, params, callback, TRUE, r)
        /\ requests' = IF r.status = "threw" THEN requests ELSE e.requests
        /\ context' = IF r.status = "threw" THEN context ELSE e.context
  /\ UNCHANGED <<listeners, kept, clientVars, versionVars, retryVars>>

\* The console evaluates an expression whose value is a Request made
\* earlier, or a value that is no Request.
EvaluateValue(value) ==
  /\ value.t = "request" => value.id \in 1..Len(requests)
  /\ LET e == customEval(requests, context, value)
     IN /\ requests' = e.requests
        /\ context' = e.context
  /\ UNCHANGED <<listeners, call, kept, clientVars, versionVars, retryVars>>

\* The names of the handlers in a sequence of listeners.
Names(ls) == [i \in 1..Len(ls) |-> ls[i].handler]

\* A send started on request i completes: the transport was invoked, and
\* the complete handlers run in the order they were attached; the console's
\* handler copies the response's data and error into the context.
Respond(i, outcome) ==
  /\ i \in 1..Len(requests)
  /\ Len(requests[i].responses) < Len(Sends(requests[i]))
  /\ LET ran == Names(Handlers(requests[i], "complete"))
     IN /\ requests' = [requests EXCEPT ![i].responses =
                          Append(@, [error |-> outcome.error, data |-> outcome.data,
                                     complete |-> ran])]
        /\ context' = IF \E k \in 1..Len(ran) : ran[k] = "consoleDataExtraction"
                      THEN [context EXCEPT !.data = outcome.data,
                                           !.error = outcome.error]
                      ELSE context
  /\ UNCHANGED <<listeners, call, kept, clientVars, versionVars, retryVars>>

\* The response's content matters to the console only: here every send
\* ends with data.
RequestNext ==
  \/ \E c \in RequestConstructions : ctor.pc = "idle" /\ New(c[1], c[2])
  \/ LoadClientClass
  \/ Initialize
  \/ \E params \in ParamsArguments : \E callback \in CallbackArguments :
       MakeRequest("operation", params, callback)
  \/ \E method \in {"operation", "otherOperation", "operationName", "setEndpoint"} :
       \E params \in ParamsArguments : \E callback \in CallbackArguments :
         CallOperation(method, params, callback)
  \/ \E i \in 1..MaxRequests :
       \/ CallerSend(i)
       \/ Respond(i, Succeeded)

SpecRequest == RequestInit /\ [][RequestNext]_vars

(***************************************************************************)
(* Claims about requests                                                   *)
(***************************************************************************)
\* The positions in the calls on r of the calls that satisfy Test.
C_Calls(r, Test(_)) == {k \in 1..Len(r.calls) : Test(r.calls[k])}
C_SendBy(r, who) == C_Calls(r, LAMBDA c : c.method = "send" /\ c.by = who)
C_CallbackOn(r) ==
  C_Calls(r, LAMBDA c : c.method = "on" /\ c.by = "makeRequest" /\ c.phase = "complete")
\* The callback makeRequest goes by: params when it is a function.
C_Callback == IF call.params.t = "function" THEN call.params ELSE call.callback
C_Returned == call # None /\ call.status = "returned"

\* C11: a makeRequest that returns gives a Request constructed by this call,
\* with the global and core listener sets attached; made without a callback
\* it has no send by makeRequest and no response before its caller sends
\* it; made with a callback it has the callback registered on complete and,
\* right after, the one send that makeRequest starts.
C11_SentOnlyWithCallback ==
  /\ C_Returned =>
       /\ call.value = Len(requests)
       /\ requests[call.value].operation = call.operation
       /\ (C_CallbackOn(requests[call.value]) # {}) <=> ~Falsy(C_Callback)
       /\ ~Falsy(C_Callback) =>
            \A k \in C_CallbackOn(requests[call.value]) :
              requests[call.value].calls[k].handler = C_Callback.name
  /\ \A i \in 1..Len(requests) :
       LET r == requests[i]
       IN /\ Len(r.calls) >= 2
          /\ r.calls[1].method = "addListeners" /\ r.calls[1].set = "events"
          /\ r.calls[2].method = "addListeners" /\ r.calls[2].set = "Core"
          /\ C_CallbackOn(r) = {} =>
               /\ C_SendBy(r, "makeRequest") = {}
               /\ Len(r.responses) <= Cardinality(C_SendBy(r, "caller"))
          /\ C_CallbackOn(r) # {} =>
               /\ Cardinality(C_CallbackOn(r)) = 1
               /\ Cardinality(C_SendBy(r, "makeRequest")) = 1
               /\ \A k \in C_CallbackOn(r) : C_SendBy(r, "makeRequest") = {k + 1}

\* Made without a callback, then sent by its caller, and responded to.
C11_Witness ==
  /\ C_Returned
  /\ Falsy(C_Callback)
  /\ C_SendBy(requests[call.value], "makeRequest") = {}
  /\ C_SendBy(requests[call.value], "caller") # {}
  /\ requests[call.value].responses # <<>>

C12_ParamsOmitted == call.params = Undefined \/ call.params.t = "function"

\* C12: an operation invoked with params omitted, a callback in its place
\* or no argument at all, constructs its Request with the empty object as
\* parameters.
C12_OmittedParamsAreEmpty ==
  (C_Returned /\ call.method # "makeRequest" /\ C12_ParamsOmitted) =>
    requests[call.value].params = Object(<<>>)

C13_IsValidation(l) == l.phase = "validate" /\ l.handler = "VALIDATE_PARAMETERS"
C13_Removals(r) == C_Calls(r, LAMBDA c : c.method = "removeListener")
C13_Sets(r) == C_Calls(r, LAMBDA c : c.method = "addListeners")
\* Everything attached to r, had nothing been removed.
C13_Added(r) == Attached(SelectSeq(r.calls, LAMBDA c : c.method # "removeListener"))

\* C13: for a client with paramValidation false, no request has the
\* parameter validation handler among its validate handlers, the one removal
\* comes after the listener sets are attached, and every other handler
\* attached is still there, in its place; with paramValidation true nothing
\* is removed, and the handler is there whenever the core set has it.
C13_ValidationRemoved ==
  ctor.pc = "done" =>
    \A i \in 1..Len(requests) :
      LET r == requests[i]
      IN /\ ~ctor.self.config.paramValidation =>
              /\ \A k \in 1..Len(Handlers(r, "validate")) :
                   ~C13_IsValidation(Handlers(r, "validate")[k])
              /\ Cardinality(C13_Removals(r)) = 1
              /\ \A k \in C13_Removals(r) : \A a \in C13_Sets(r) : a < k
              /\ Attached(r.calls) =
                   SelectSeq(C13_Added(r), LAMBDA l : ~C13_IsValidation(l))
         /\ ctor.self.config.paramValidation =>
              /\ C13_Removals(r) = {}
              /\ (\E k \in 1..Len(listeners.Core) : C13_IsValidation(listeners.Core[k]))
                   => \E k \in 1..Len(Handlers(r, "validate")) :
                        C13_IsValidation(Handlers(r, "validate")[k])

\* Validation is in the core set, the client disabled it: the request's
\* validate handlers are the other two.
C13_Witness ==
  /\ ctor.pc = "done"
  /\ ~ctor.self.config.paramValidation
  /\ \E k \in 1..Len(listeners.Core) : C13_IsValidation(listeners.Core[k])
  /\ requests # <<>>
  /\ Names(Handlers(requests[1], "validate")) = <<"VALIDATE_CREDENTIALS", "VALIDATE_REGION">>

\* The operations an API descriptor declares.
C15_Declared(api) == IF "operations" \in DOMAIN api THEN api.operations ELSE {}
C15_IsMethod(v) == v.t = "function"
\* The class the construction bound the inline descriptor to, if it did.
C15_Bound == Len(classes) > Len(RequestClasses)

\* C15: in every class with an API, each declared operation is a member: the
\* member the prototype had under that name, hand-written or inherited, or
\* else the method that forwards to makeRequest under that name; no other
\* member forwards; the class an inline descriptor is bound to has every
\* member of its superclass unchanged and no new method but these; and a
\* call of such a method makes the request makeRequest makes of the method's
\* name and the same params and callback.
C15_MethodsPerOperation ==
  /\ \A c \in DOMAIN classes :
       /\ \A m \in C15_Declared(classes[c].api) :
            /\ m \in DOMAIN classes[c].members
            /\ C15_IsMethod(classes[c].members[m])
            /\ m \in DOMAIN ClientMembers => classes[c].members[m] = ClientMembers[m]
            /\ m \in DOMAIN OwnFeatures /\ c = Len(RequestClasses) =>
                 classes[c].members[m] = OwnFeatures[m]
            /\ m \notin DOMAIN ClientMembers /\ ~(m \in DOMAIN OwnFeatures /\ c = Len(RequestClasses))
                 => classes[c].members[m] = Forward(m)
       /\ \A m \in DOMAIN classes[c].members :
            "method" \in DOMAIN classes[c].members[m] =>
              m \in C15_Declared(classes[c].api) /\ classes[c].members[m] = Forward(m)
  /\ C15_Bound =>
       LET new == classes[Len(classes)]
           old == classes[ctor.type]
       IN /\ \A m \in DOMAIN old.members : new.members[m] = old.members[m]
          /\ \A m \in DOMAIN new.members \ DOMAIN old.members :
               C15_IsMethod(new.members[m]) => m \in C15_Declared(new.api)
  /\ (C_Returned /\ call.method # "makeRequest") =>
       /\ classes[ctor.self.cls].members[call.method] = Forward(call.method)
       /\ call.operation = call.method
       /\ requests[call.value].operation = call.method
       /\ requests[call.value].params =
            IF call.params.t = "function" THEN Object(<<>>) ELSE call.params
       /\ (C_CallbackOn(requests[call.value]) # {}) <=> ~Falsy(C_Callback)

\* The one-off descriptor with operationName and setEndpoint: operationName
\* is made and was called, setEndpoint is still the prototype's.
C15_Witness ==
  /\ C15_Bound
  /\ ctor.pc = "done"
  /\ classes[ctor.self.cls].api = InlineOperations
  /\ classes[ctor.self.cls].members["operationName"] = Forward("operationName")
  /\ classes[ctor.self.cls].members["setEndpoint"] = Function("setEndpoint")
  /\ C_Returned
  /\ call.method = "operationName"
  /\ requests[call.value].operation = "operationName"

\* The place in the order of attachment of what a listener came from.
C18_Rank(from) ==
  IF from = "events" THEN 1
  ELSE IF from = "Core" THEN 2
  ELSE IF from \in FormatSets THEN 3
  ELSE IF from = "client" THEN 4
  ELSE IF from = "makeRequest" THEN 5
  ELSE 6
\* The complete handlers of r that came from the listener sets and the client.
C18_BeforeCallback(r) ==
  LET handlers == Handlers(r, "complete")
  IN {handlers[k].handler : k \in {k \in 1..Len(handlers) : C18_Rank(handlers[k].from) <= 4}}
C18_Position(seq, x) == {k \in 1..Len(seq) : seq[k] = x}

\* C18: on every request the listeners are attached in the order global,
\* core, format, the client's own, and then the caller's callback; and in
\* every response the callback ran after each complete handler of the
\* global, core and format sets and of the client.
C18_AttachmentOrder ==
  \A i \in 1..Len(requests) :
    LET r == requests[i]
        attached == Attached(r.calls)
    IN /\ \A j, k \in 1..Len(attached) :
            j < k => C18_Rank(attached[j].from) <= C18_Rank(attached[k].from)
       /\ \A n \in 1..Len(r.responses) :
            \A k \in C_CallbackOn(r) :
              LET ran == r.responses[n].complete
              IN /\ C18_Position(ran, r.calls[k].handler) # {}
                 /\ \A h \in C18_BeforeCallback(r) :
                      \A a \in C18_Position(ran, h) :
                        \A b \in C18_Position(ran, r.calls[k].handler) : a < b

\* Each of the four has a complete handler, and the callback ran last.
C18_Witness ==
  /\ requests # <<>>
  /\ requests[1].responses # <<>>
  /\ requests[1].responses[1].complete =
       <<"logger.complete", "Core.COMPLETE", "Json.COMPLETE", "Own.COMPLETE", "callback">>

C19_Format == Get(classes[ctor.type].api, "format")
C19_SetOf(format) ==
  IF format = String("query") THEN "Query"
  ELSE IF format = String("json") THEN "Json"
  ELSE IF format = String("rest-json") THEN "RestJson"
  ELSE "RestXml"
C19_Known ==
  C19_Format \in {String("query"), String("json"), String("rest-json"), String("rest-xml")}
\* The format sets attached to r, in order.
C19_FormatSets(r) ==
  SelectSeq(r.calls, LAMBDA c : c.method = "addListeners" /\ c.set \in FormatSets)

\* C19: a client of a class bound to a format of the four attaches to each
\* request that format's set and no other format set; with no format, no
\* format set; with any other format the construction ends with a client,
\* every call of makeRequest or of an operation throws the format error,
\* and no request is returned or sent.
C19_FormatListeners ==
  (ctor.pc # "idle" /\ ~isEmpty(classes[ctor.type].api)) =>
    /\ C19_Known =>
         /\ call # None => call.status = "returned"
         /\ \A i \in 1..Len(requests) :
              C19_FormatSets(requests[i]) =
                <<[method |-> "addListeners", set |-> C19_SetOf(C19_Format),
                   handlers |-> listeners[C19_SetOf(C19_Format)]]>>
    /\ C19_Format = Undefined =>
         /\ call # None => call.status = "returned"
         /\ \A i \in 1..Len(requests) : C19_FormatSets(requests[i]) = <<>>
    /\ (~C19_Known /\ C19_Format # Undefined) =>
         /\ ctor.pc # "threw"
         /\ requests = <<>>
         /\ call # None =>
              /\ call.status = "threw"
              /\ call.error = Threw("InvalidServiceFormat", "", ToStr(C19_Format))

\* The client of the class with format soap was constructed, and its
\* operation threw.
C19_Witness ==
  /\ ctor.pc = "done"
  /\ C19_Format = String("soap")
  /\ call # None
  /\ call.method = "operation"
  /\ call.status = "threw"
  /\ requests = <<>>

(***************************************************************************)
(* The console: every command goes through customEval                      *)
(***************************************************************************)
\* The console has loaded: its client is constructed (new clientClass(
\* defaultOptions)), the logger listens on AWS.events, the context is new.
ConsoleClient ==
  [pc |-> "done", n |-> 1, type |-> 2, arg |-> Object([region |-> String("us-east-1")]),
   cls |-> 2, depth |-> 0, requested |-> <<>>, resolved |-> <<>>, requires |-> <<>>,
   error |-> None,
   self |-> initialize(RequestClasses, NewConfig(<<>>), 2,
                       Object([region |-> String("us-east-1")]))]

ConsoleInit ==
  /\ vClients = NoRegistry
  /\ vVersion = Undefined
  /\ vResult = None
  /\ classes = RequestClasses
  /\ apiFiles = <<>>
  /\ AWSconfig = NewConfig(<<>>)
  /\ ctor = ConsoleClient
  /\ RetryIdle
  /\ listeners =
       Registry(<<Listener("send", "logger.send"), Listener("complete", "logger.complete")>>,
                CoreListeners(TRUE, <<>>), FALSE)
  /\ requests = <<>>
  /\ call = None
  /\ context = NewContext
  /\ kept = None

ConsoleNext ==
  \/ \E params \in ParamsArguments : \E callback \in CallbackArguments :
       EvaluateCall("operation", params, callback)
  \/ \E i \in 1..MaxCommands :
       \/ EvaluateValue(RequestValue(i))
       \/ \E outcome \in {Succeeded, Failed} : Respond(i, outcome)
  \/ EvaluateValue(Number(2))

SpecConsole == ConsoleInit /\ [][ConsoleNext]_vars

(***************************************************************************)
(* Claims about the console                                                *)
(***************************************************************************)
\* C17: on every request, the sends started by makeRequest and by the
\* console together are at most one, however the request was made and
\* however often the console evaluated it.
C17_OneSendLoop ==
  \A i \in 1..Len(requests) :
    Cardinality(C_SendBy(requests[i], "makeRequest")
                \cup C_SendBy(requests[i], "console")) <= 1

\* C21: whenever context.data or context.error is not null, context.request
\* holds a Request and they are the data and error of its latest response:
\* a completion of a Request evaluated earlier writes nothing while
\* context.request holds a later one.
C21_DataOfHeldRequest ==
  (context.data # Null \/ context.error # Null) =>
    /\ context.request # Null
    /\ LET responses == requests[context.request.id].responses
       IN /\ responses # <<>>
          /\ responses[Len(responses)].data = context.data
          /\ responses[Len(responses)].error = context.error

(***************************************************************************)
(* The endpoint: at construction and by setEndpoint                        *)
(***************************************************************************)
\* The classes of the setEndpoint tests: FooClient, FooClient with a global
\* endpoint on its API, and MockClient.
EndpointClasses ==
  <<AWSClient,
    inherit(AWSClient, [api |-> [endpointPrefix |-> String("fooservice")]]),
    inherit(AWSClient, [api |-> [endpointPrefix |-> String("fooservice"),
                                 globalEndpoint |-> String("fooservice.amazonaws.com")]]),
    defineClient(Object(BoundApi), Undefined, Undefined)>>

EndpointConfigs ==
  {Undefined,
   Object([region |-> String("someregion")]),
   Object([endpoint |-> String("notfooservice.amazonaws.com")]),
   Object([endpoint |-> String("notfooservice.amazonaws.com"),
           region |-> String("someregion")])}

EndpointArguments == {Undefined, String("notfooservice.amazonaws.com")}

EndpointInit ==
  /\ vClients = NoRegistry
  /\ vVersion = Undefined
  /\ vResult = None
  /\ classes = EndpointClasses
  /\ apiFiles = <<>>
  /\ AWSconfig \in {NewConfig(<<>>), NewConfig([region |-> String("us-east-1")]),
                    NewConfig([endpoint |-> String("localhost")])}
  /\ ctor = NoConstruction
  /\ RetryIdle
  /\ RequestIdle

\* client.setEndpoint(endpoint)
SetEndpoint(endpoint) ==
  /\ ctor.pc = "done"
  /\ ctor' = [ctor EXCEPT !.self.endpoint =
                setEndpoint(ctor.self.api, ctor.self.config, endpoint)]
  /\ call' = [method |-> "setEndpoint", endpoint |-> endpoint, status |-> "returned"]
  /\ UNCHANGED <<classes, apiFiles, AWSconfig, listeners, requests, context, kept,
                 versionVars, retryVars>>

EndpointNext ==
  \/ \E type \in 2..Len(EndpointClasses) : \E arg \in EndpointConfigs :
       ctor.pc = "idle" /\ New(type, arg)
  \/ LoadClientClass
  \/ Initialize
  \/ \E endpoint \in EndpointArguments : SetEndpoint(endpoint)

SpecEndpoint == EndpointInit /\ [][EndpointNext]_vars

\* The endpoint given: setEndpoint's argument, or config.endpoint when the
\* client is as constructed.
C14_Given == IF call = None THEN ctor.self.config.endpoint ELSE call.endpoint

\* C14: a constructed client has an endpoint, at construction and after
\* every setEndpoint: the endpoint given (the argument, or config.endpoint at
\* construction) when one is given; else the API's globalEndpoint when it
\* declares one; else endpointPrefix.region.amazonaws.com.
C14_EndpointPriority ==
  ctor.pc = "done" =>
    /\ DOMAIN ctor.self.endpoint = {"host"}
    /\ C14_Given # Undefined => ctor.self.endpoint.host = C14_Given.s
    /\ (C14_Given = Undefined /\ "globalEndpoint" \in DOMAIN ctor.self.api) =>
         ctor.self.endpoint.host = ctor.self.api.globalEndpoint.s
    /\ (C14_Given = Undefined /\ "globalEndpoint" \notin DOMAIN ctor.self.api) =>
         ctor.self.endpoint.host =
           ctor.self.api.endpointPrefix.s \o "."
             \o (IF ctor.self.config.region = Undefined THEN "undefined"
                 ELSE ctor.self.config.region.s)
             \o ".amazonaws.com"

\* The API declares a global endpoint, a region is set, and the endpoint set
\* in the config is the client's.
C14_Witness ==
  /\ ctor.pc = "done"
  /\ call = None
  /\ "globalEndpoint" \in DOMAIN ctor.self.api
  /\ ctor.self.config.region = String("someregion")
  /\ ctor.self.config.endpoint = String("notfooservice.amazonaws.com")
  /\ ctor.self.endpoint.host = "notfooservice.amazonaws.com"

(***************************************************************************)
(* Two constructions of one type with one config                           *)
(***************************************************************************)
\* A client just constructed is kept, with what its construction asked for.
Keep ==
  /\ ctor.pc = "done"
  /\ kept = None
  /\ kept' = [n |-> ctor.n, type |-> ctor.type, arg |-> ctor.arg, self |-> ctor.self,
              resolved |-> ctor.resolved, requires |-> ctor.requires]
  /\ UNCHANGED <<listeners, requests, call, context, clientVars, versionVars, retryVars>>

\* The constructions made twice: of the versioned service by the versions
\* it resolves, of an inline description, and of a class with a bound API.
TwiceConstructions ==
  ({CustomId} \X {Undefined, Object([apiVersion |-> String("1999-05-05")]),
                  Object([apiConfig |-> Object(InlineApi)])})
  \cup {<<BoundId, Undefined>>}

TwiceNext ==
  \/ \E c \in TwiceConstructions : New(c[1], c[2])
  \/ LoadClientClass
  \/ Initialize
  \/ \E file \in ApiFileNames : \E exports \in ApiFileExports(file) :
       InstallApiFile(file, exports)
  \/ Keep

SpecTwice == Init /\ [][TwiceNext]_vars

C16_Again ==
  /\ kept # None
  /\ ctor.pc = "done"
  /\ ctor.n > kept.n
  /\ ctor.type = kept.type
  /\ ctor.arg = kept.arg

\* C16: a client constructed from the type and config of a client
\* constructed before it has the same endpoint and the same API, from the
\* same resolved version, whatever was constructed or loaded in between and
\* whether its class was defined by this construction or an earlier one.
C16_SameEndpointAndApi ==
  C16_Again =>
    /\ ctor.self.endpoint = kept.self.endpoint
    /\ ctor.self.api = kept.self.api
    /\ ctor.resolved = kept.resolved

\* The first construction loaded the API file, another construction came
\* between, and the second found the class in the registry.
C16_Witness ==
  /\ C16_Again
  /\ ctor.n > kept.n + 1
  /\ kept.requires # <<>>
  /\ ctor.requires = <<>>
  /\ ctor.resolved # <<>>
  /\ ~isEmpty(ctor.self.api)

\* C20: every construction ends with a client or an error of the resolver
\* or the loader, after at most one re-dispatch of the constructor, an empty
\* inline descriptor and an empty API file included.
C20_DispatchesAtMostOnce ==
  /\ ctor.depth <= 1
  /\ ctor.pc = "threw" =>
       ctor.error.error \in {"NoClientsDefined", "VersionConstraint", "ApiConfiguration"}

====
